---- MODULE Spec2Model ----
(***************************************************************************)
(* Azure Spot VM eviction monitor (vm-monitor-agent/vm-monitor.py).        *)
(*                                                                         *)
(* The model follows main(): API-key validation, identity resolution with  *)
(* bounded retries and fallback, the start-up connectivity test, and the   *)
(* monitoring loop (poll -> detect/notify -> heartbeat, the except clause  *)
(* with its backoff, and the sleep that ends an iteration).  The pure      *)
(* functions get_azure_metadata, check_scheduled_events and send_webhook   *)
(* are operators over the HTTP outcome they are given.                     *)
(*                                                                         *)
(* Time is a discrete clock `now` (seconds).  Only time.sleep advances it; *)
(* time.sleep of a negative length raises ValueError.                      *)
(***************************************************************************)
EXTENDS Integers, Sequences, FiniteSets, TLC

\* ------------------------------------------------------------------ bounds
MaxTime == 13           \* the clock stops the model here
MaxEvents == 2          \* longest "Events" list the metadata service returns

\* ------------------------------------------------------- program constants
CHECK_INTERVAL == 5
HEARTBEAT_INTERVAL == 300
MAX_CONSECUTIVE_ERRORS == 10
max_retries == 5
RetryPause == 2         \* time.sleep(2) between identity retries
MaxBackoff == 300
DEFAULT_RESOURCE_GROUP == "test"
Hostname == "host-1"    \* socket.gethostname()

None == "None"          \* Python's None (also: a key absent from a dict)

\* ------------------------------------------------------------------ inputs
\* --interval / --heartbeat as given on the command line (0: falls to
\* default); type=int takes a negative interval as well
ArgIntervals == {0, 1, -1}
ArgHeartbeats == {0, 2}
\* WEBHOOK_API_KEY in the environment, --api-key on the command line
KeyValues == {None, "key"}

TerminationTypes == {"Preempt", "Terminate", "Reboot", "Redeploy"}
Ids == {"e1", "e2"}
Unhashable == "<list>"  \* an EventId that is a JSON array: not hashable
EventIds == Ids \cup {None, Unhashable}
Ev(id, type) == [EventId |-> id, EventType |-> type]
\* The events the metadata service reports: two with an id, two different
\* ones without "EventId", one that is no termination event, one whose id
\* is not hashable.
Events ==
    {Ev("e1", "Preempt"), Ev("e2", "Redeploy"), Ev(None, "Terminate"),
     Ev(None, "Reboot"), Ev("e1", "Freeze"), Ev(Unhashable, "Preempt")}
NoEvent == Ev(None, None)

RECURSIVE SeqsUpTo(_, _)
SeqsUpTo(S, n) ==
    IF n = 0 THEN {<<>>}
    ELSE LET shorter == SeqsUpTo(S, n - 1)
         IN  shorter \cup {Append(s, x) : s \in shorter, x \in S}

EventLists == SeqsUpTo(Events, MaxEvents)

\* What the scheduled-events GET can do: raise a RequestException (network
\* error, timeout, HTTP error status), answer with a body that has no
\* "Events" key, answer with a body of an unexpected shape ("Events": null,
\* a JSON array), or answer with a list of events.
EventResponses ==
    {[kind |-> k, Events |-> <<>>] :
        k \in {"RequestException", "NoEventsKey", "Malformed"}}
    \cup {[kind |-> "ok", Events |-> L] : L \in EventLists}

\* What the instance-metadata GET can do.
MetadataResponses ==
    {[kind |-> k, name |-> None, resourceGroupName |-> None] :
        k \in {"RequestException", "Malformed"}}
    \cup {[kind |-> "ok", name |-> n, resourceGroupName |-> g] :
            n \in {None, "Vm1"}, g \in {None, "MyRG"}}

\* What the webhook POST can do: raise a RequestException, raise another
\* exception, or complete with a status (and a body that is JSON or not).
WebhookOutcomes ==
    {[exc |-> e, status |-> 0, json |-> FALSE] :
        e \in {"RequestException", "Exception"}}
    \cup {[exc |-> "none", status |-> s, json |-> j] :
            s \in {200, 204, 304, 400, 401, 500}, j \in BOOLEAN}

\* Every outcome of one POST: either exception, or any HTTP status code.
StatusCodes == 100..599
PostOutcomes ==
    {[exc |-> e, status |-> 0, json |-> FALSE] :
        e \in {"RequestException", "Exception"}}
    \cup {[exc |-> "none", status |-> s, json |-> j] :
            s \in StatusCodes, j \in BOOLEAN}

Min(a, b) == IF a < b THEN a ELSE b

\* ---------------------------------------------------------- pure functions

\* get_azure_metadata that normalises the resource group to lower case
get_azure_metadata_lowercase(resp) ==
    IF resp.kind # "ok" \/ resp.name = None \/ resp.resourceGroupName = None
    THEN [raised |-> resp.kind = "Malformed", rg |-> None, vm |-> None]
    ELSE [raised |-> FALSE,
          rg |-> IF resp.resourceGroupName = "MyRG" THEN "myrg"
                 ELSE resp.resourceGroupName,
          vm |-> resp.name]

\* get_azure_metadata(): <<resource_group, vm_name>>, or "raise" when an
\* exception other than RequestException leaves the function.
get_azure_metadata(resp) ==
    IF resp.kind = "RequestException" THEN [raised |-> FALSE, rg |-> None, vm |-> None]
    ELSE IF resp.kind = "Malformed" THEN [raised |-> TRUE, rg |-> None, vm |-> None]
    ELSE IF resp.name = None \/ resp.resourceGroupName = None
         THEN [raised |-> FALSE, rg |-> None, vm |-> None]
         ELSE [raised |-> FALSE, rg |-> resp.resourceGroupName, vm |-> resp.name]

\* the list comprehension of check_scheduled_events
RECURSIVE termination_events(_)
termination_events(events) ==
    IF events = <<>> THEN <<>>
    ELSE IF Head(events).EventType \in TerminationTypes
         THEN <<Head(events)>> \o termination_events(Tail(events))
         ELSE termination_events(Tail(events))

\* check_scheduled_events(): the first termination event or NoEvent (None)
check_scheduled_events(resp) ==
    IF resp.kind = "RequestException" THEN [raised |-> FALSE, event |-> NoEvent]
    ELSE IF resp.kind = "NoEventsKey" THEN [raised |-> FALSE, event |-> NoEvent]
    ELSE IF resp.kind = "Malformed" THEN [raised |-> TRUE, event |-> NoEvent]
    ELSE LET t == termination_events(resp.Events)
         IN  IF t # <<>> THEN [raised |-> FALSE, event |-> t[1]]
             ELSE [raised |-> FALSE, event |-> NoEvent]

\* send_webhook(): "True", "False", or "Raise" when an exception other than
\* RequestException leaves the function.
send_webhook(api_key, o) ==
    IF api_key = None THEN "False"
    ELSE IF o.exc = "RequestException" THEN "False"
    ELSE IF o.exc = "Exception" THEN "Raise"
    ELSE IF o.status = 401 THEN "False"
    ELSE IF o.status = 400 THEN "False"
    ELSE IF o.status >= 400 /\ o.status < 600 THEN "False"
    ELSE "True"

\* send_webhook(): the line it logs, which is where the code tells an
\* authentication failure, a bad request and any other failure apart.
send_webhook_log(api_key, o) ==
    IF api_key = None THEN "no_key"
    ELSE IF o.exc = "RequestException" THEN "error"
    ELSE IF o.exc = "Exception" THEN "none"
    ELSE IF o.status = 401 THEN "auth_failed"
    ELSE IF o.status = 400 THEN "bad_request"
    ELSE IF o.status >= 400 /\ o.status < 600 THEN "error"
    ELSE "sent"

\* ------------------------------------------------------------------- state
VARIABLES
    pc,                  \* position of the single control thread
    exit_code,           \* process exit status (0 while running)
    now,                 \* time.time()
    WEBHOOK_API_KEY,
    check_interval,
    heartbeat_interval,
    resource_group,
    vm_name,
    retry_count,
    processed_events,
    consecutive_errors,
    last_heartbeat_time,
    current_time,
    event,
    \* history of the run, kept for the properties
    fetches,             \* calls of get_azure_metadata so far
    sent,                \* event ids an event-triggered send was made for
    sent_ok,             \* event ids an event-triggered send returned True for
    sent_ok_types,       \* EventTypes of the id-less events among them
    iter_poll,           \* kind of this iteration's scheduled-events response
    iter_terms,          \* the EventId strings of its termination events
    iter_sends,          \* send_webhook calls of this iteration, in order
    iter_exc,            \* the step of this iteration that raised, or "none"
                         \* (until the poll: of the iteration before)
    iter_sleeps,         \* backoff sleeps of this iteration, in order
    call                 \* the last send_webhook call made on its own

vars == <<pc, exit_code, now, WEBHOOK_API_KEY, check_interval, heartbeat_interval,
          resource_group, vm_name, retry_count, processed_events,
          consecutive_errors, last_heartbeat_time, current_time, event,
          fetches, sent, sent_ok, sent_ok_types, iter_poll, iter_terms, iter_sends, iter_exc, iter_sleeps,
          call>>

config == <<WEBHOOK_API_KEY, check_interval, heartbeat_interval>>
identity == <<resource_group, vm_name, retry_count, fetches>>
loop_state == <<processed_events, consecutive_errors, last_heartbeat_time>>
history == <<sent, sent_ok, sent_ok_types>>
iter_history == <<iter_poll, iter_terms, iter_sends, iter_exc, iter_sleeps>>

NoPoll == "none"
NoCall == [outcome |-> [exc |-> "none", status |-> 0, json |-> FALSE],
           result |-> "none", log |-> "none"]

\* the EventIds of a list of events that are strings
event_ids(events) == {events[i].EventId : i \in DOMAIN events} \cap Ids

\* One send_webhook call: what it was for, what it returned, the payload it
\* carried (lines 105-108), and what event-triggered sends had been made for
\* the same EventId before it.
SendRecord(kind, id, result) ==
    [kind |-> kind, id |-> id, result |-> result,
     prior |-> IF kind # "event" \/ id \notin sent THEN "first"
               ELSE IF id \in sent_ok THEN "after_success"
               ELSE "after_failure",
     resourceGroup |-> resource_group, vmName |-> vm_name]

Init ==
    /\ pc = "start"
    /\ exit_code = 0
    /\ now = 0
    /\ WEBHOOK_API_KEY \in KeyValues
    /\ check_interval = 0
    /\ heartbeat_interval = 0
    /\ resource_group = None
    /\ vm_name = None
    /\ retry_count = 0
    /\ processed_events = {}
    /\ consecutive_errors = 0
    /\ last_heartbeat_time = 0
    /\ current_time = 0
    /\ event = NoEvent
    /\ fetches = 0
    /\ sent = {}
    /\ sent_ok = {}
    /\ sent_ok_types = {}
    /\ iter_poll = NoPoll
    /\ iter_terms = {}
    /\ iter_sends = <<>>
    /\ iter_exc = "none"
    /\ iter_sleeps = <<>>
    /\ call = NoCall

\* ------------------------------------------------------------- start-up

\* lines 155-158: --api-key overrides the environment's key when given
api_key_after_args(env_key, arg_key) ==
    IF arg_key # None THEN arg_key ELSE env_key

\* lines 165-166: `args.interval or CHECK_INTERVAL`
arg_or_default(arg, default) ==
    IF arg # 0 THEN arg ELSE default

\* main(), lines 144-166: parse the arguments, validate the API key.
\* api_key_missing that lets a missing key through
api_key_missing_never(key) == FALSE

\* main(), line 161: "if not WEBHOOK_API_KEY".
api_key_missing(key) == key = None

Start ==
    /\ pc = "start"
    /\ UNCHANGED call
    /\ \E arg_key \in KeyValues, arg_interval \in ArgIntervals,
          arg_heartbeat \in ArgHeartbeats :
         LET key == api_key_after_args(WEBHOOK_API_KEY, arg_key) IN
         /\ WEBHOOK_API_KEY' = key
         /\ IF api_key_missing(key)
            THEN /\ pc' = "exit"
                 /\ exit_code' = 1
                 /\ UNCHANGED <<check_interval, heartbeat_interval>>
            ELSE /\ pc' = "resolve"
                 /\ check_interval' = arg_or_default(arg_interval, CHECK_INTERVAL)
                 /\ heartbeat_interval' = arg_or_default(arg_heartbeat, HEARTBEAT_INTERVAL)
                 /\ UNCHANGED exit_code
    /\ UNCHANGED <<now, identity, loop_state, current_time, event, history,
                   iter_history>>

\* resolve_again that allows one retry more
resolve_again_off_by_one(rg, vm, retries) ==
    (rg = None \/ vm = None) /\ retries <= max_retries

\* line 173: the condition of the identity retry loop
resolve_again(rg, vm, retries) ==
    (rg = None \/ vm = None) /\ retries < max_retries

\* main(), lines 173-178: one pass of the identity retry loop.
Resolve ==
    /\ pc = "resolve"
    /\ UNCHANGED call
    /\ resolve_again(resource_group, vm_name, retry_count)
    /\ \E resp \in MetadataResponses :
         LET r == get_azure_metadata(resp) IN
         /\ fetches' = fetches + 1
         /\ IF r.raised
            THEN /\ pc' = "fatal"
                 /\ exit_code' = 1
                 /\ UNCHANGED <<resource_group, vm_name, retry_count, now>>
            ELSE /\ resource_group' = r.rg
                 /\ vm_name' = r.vm
                 /\ IF r.rg = None \/ r.vm = None
                    THEN /\ retry_count' = retry_count + 1
                         /\ now' = now + RetryPause
                    ELSE UNCHANGED <<retry_count, now>>
                 /\ UNCHANGED <<pc, exit_code>>
    /\ UNCHANGED <<config, loop_state, current_time, event, history, iter_history>>

\* main(), lines 181-188: leave the retry loop, fall back where a field is missing.
Fallback ==
    /\ pc = "resolve"
    /\ UNCHANGED call
    /\ ~resolve_again(resource_group, vm_name, retry_count)
    /\ vm_name' = IF vm_name = None THEN Hostname ELSE vm_name
    /\ resource_group' = IF resource_group = None THEN DEFAULT_RESOURCE_GROUP
                         ELSE resource_group
    /\ pc' = "test"
    /\ UNCHANGED <<exit_code, now, config, retry_count, fetches, loop_state,
                   current_time, event, history, iter_history>>

\* main(), lines 196-208: the connectivity test, then the loop's initial state.
ConnectivityTest ==
    /\ pc = "test"
    /\ UNCHANGED call
    /\ \E o \in WebhookOutcomes :
         LET r == send_webhook(WEBHOOK_API_KEY, o) IN
         /\ iter_sends' = <<SendRecord("test", None, r)>>
         /\ IF r = "Raise"
            THEN /\ pc' = "fatal"
                 /\ exit_code' = 1
                 /\ UNCHANGED loop_state
            ELSE /\ pc' = "poll"
                 /\ processed_events' = {}
                 /\ consecutive_errors' = 0
                 /\ last_heartbeat_time' = now
                 /\ UNCHANGED exit_code
    /\ UNCHANGED <<now, config, identity, current_time, event, history,
                   iter_poll, iter_terms, iter_exc, iter_sleeps>>

\* ------------------------------------------------------ the monitoring loop

\* main(), lines 212-219: take the time, poll, reset the error counter.
\* errors_after_poll that forgets the reset
errors_after_poll_kept(n) == n

\* main(), line 219: the counter is reset once the poll has returned.
errors_after_poll(n) == 0

\* line 216: what the call of check_scheduled_events makes of a response
\* (raised or returned, and the event returned), with the record of the
\* polled list that goes into iter_poll and iter_terms
poll_result(resp) ==
    [raised |-> check_scheduled_events(resp).raised,
     event  |-> check_scheduled_events(resp).event,
     kind   |-> resp.kind,
     terms  |-> event_ids(termination_events(resp.Events))]

\* the results of line 216 over every response of the metadata service
PollResults == {poll_result(resp) : resp \in EventResponses}

Poll ==
    /\ pc = "poll"
    /\ UNCHANGED call
    /\ current_time' = now
    /\ \E r \in PollResults :
         /\ iter_poll' = r.kind
         /\ iter_terms' = r.terms
         /\ IF r.raised
            THEN /\ pc' = "except"
                 /\ iter_exc' = "poll"
                 /\ UNCHANGED <<event, consecutive_errors>>
            ELSE /\ pc' = "notify"
                 /\ event' = r.event
                 /\ consecutive_errors' = errors_after_poll(consecutive_errors)
                 /\ iter_exc' = "none"
    /\ iter_sends' = <<>>
    /\ iter_sleeps' = <<>>
    /\ UNCHANGED <<exit_code, now, config, identity, processed_events,
                   last_heartbeat_time, history>>

\* is_new_event that takes every event without an EventId for a new one
is_new_event_idless_new(ev, processed) ==
    IF ev = NoEvent THEN "False"
    ELSE IF ev.EventId = Unhashable THEN "raise"
    ELSE IF ev.EventId = None \/ ev.EventId \notin processed THEN "True"
    ELSE "False"

\* is_new_event without the look-up in processed_events
is_new_event_no_dedup(ev, processed) ==
    IF ev = NoEvent THEN "False"
    ELSE IF ev.EventId = Unhashable THEN "raise"
    ELSE "True"

\* line 221: `event and event.get("EventId") not in processed_events`
\* ("raise": the membership test of an unhashable id raises TypeError)
is_new_event(ev, processed) ==
    IF ev = NoEvent THEN "False"
    ELSE IF ev.EventId = Unhashable THEN "raise"
    ELSE IF ev.EventId \notin processed THEN "True"
    ELSE "False"

\* mark_processed that forgets what was processed before
mark_processed_only(processed, id) == {id}

\* line 233: processed_events.add(event_id)
mark_processed(processed, id) == processed \cup {id}

\* processed_after_send that marks the event whatever the send returned
processed_after_any_send(processed, id, success) == mark_processed(processed, id)

\* processed_after_send that never marks the event
processed_never_marked(processed, id, success) == processed

\* lines 231-237: the processed set after a send that returned `success`
processed_after_send(processed, id, success) ==
    IF success = "True" THEN mark_processed(processed, id) ELSE processed

\* main(), lines 221-237: notify the webhook of a new termination event.
Notify ==
    /\ pc = "notify"
    /\ UNCHANGED call
    /\ iter_terms' = {}
    /\ LET new == is_new_event(event, processed_events) IN
       IF new = "raise"
       THEN /\ pc' = "except"
            /\ iter_exc' = "detect"
            /\ UNCHANGED <<processed_events, history, iter_sends>>
       ELSE IF new = "False"
       THEN /\ pc' = "heartbeat"
            /\ UNCHANGED <<processed_events, history, iter_sends, iter_exc>>
       ELSE \E o \in WebhookOutcomes :
              LET success == send_webhook(WEBHOOK_API_KEY, o)
                  event_id == event.EventId
              IN  /\ iter_sends' = Append(iter_sends, SendRecord("event", event_id, success))
                  /\ sent' = sent \cup {event_id}
                  /\ IF success = "Raise"
                     THEN /\ pc' = "except"
                          /\ iter_exc' = "notify"
                          /\ UNCHANGED <<processed_events, sent_ok, sent_ok_types>>
                     ELSE /\ pc' = "heartbeat"
                          /\ processed_events' =
                               processed_after_send(processed_events, event_id, success)
                          /\ sent_ok' = IF success = "True" THEN sent_ok \cup {event_id}
                                        ELSE sent_ok
                          /\ sent_ok_types' =
                               IF success = "True" /\ event_id = None
                               THEN sent_ok_types \cup {event.EventType}
                               ELSE sent_ok_types
                          /\ UNCHANGED iter_exc
    /\ UNCHANGED <<exit_code, now, config, identity, consecutive_errors,
                   last_heartbeat_time, current_time, event, iter_poll, iter_sleeps>>

\* line 240: `current_time - last_heartbeat_time >= heartbeat_interval`
heartbeat_due(t, last, interval) == t - last >= interval

\* main(), lines 239-243: the periodic heartbeat.
Heartbeat ==
    /\ pc = "heartbeat"
    /\ UNCHANGED call
    /\ IF heartbeat_due(current_time, last_heartbeat_time, heartbeat_interval)
       THEN \E o \in WebhookOutcomes :
              LET r == send_webhook(WEBHOOK_API_KEY, o) IN
              /\ iter_sends' = Append(iter_sends, SendRecord("heartbeat", None, r))
              /\ IF r = "Raise"
                 THEN /\ pc' = "except"
                      /\ iter_exc' = "heartbeat"
                      /\ UNCHANGED last_heartbeat_time
                 ELSE /\ pc' = "sleep"
                      /\ last_heartbeat_time' = current_time
                      /\ UNCHANGED iter_exc
       ELSE /\ pc' = "sleep"
            /\ UNCHANGED <<last_heartbeat_time, iter_sends, iter_exc>>
    /\ UNCHANGED <<exit_code, now, config, identity, processed_events,
                   consecutive_errors, current_time, event, history, iter_poll,
                   iter_terms, iter_sleeps>>

\* too_many_errors that backs off already at the threshold
too_many_errors_at_threshold(n) == n >= MAX_CONSECUTIVE_ERRORS

\* line 250: `consecutive_errors > MAX_CONSECUTIVE_ERRORS`
too_many_errors(n) == n > MAX_CONSECUTIVE_ERRORS

\* main(), lines 245-250: the except clause counts the error.
Except ==
    /\ pc = "except"
    /\ UNCHANGED call
    /\ consecutive_errors' = consecutive_errors + 1
    /\ pc' = IF too_many_errors(consecutive_errors + 1) THEN "backoff" ELSE "sleep"
    /\ UNCHANGED <<exit_code, now, config, identity, processed_events,
                   last_heartbeat_time, current_time, event, history, iter_history>>

\* line 251: min(300, check_interval * 2)
backoff_interval(interval) == Min(MaxBackoff, interval * 2)

\* line 255: MAX_CONSECUTIVE_ERRORS // 2
errors_after_backoff == MAX_CONSECUTIVE_ERRORS \div 2

\* time.sleep(secs) raises ValueError for a negative length
sleep_raises(secs) == secs < 0

\* main(), lines 251-255: sleep the backoff, then reset the counter.  A
\* ValueError of the sleep is raised inside the except clause and leaves
\* main() (lines 266-268).
Backoff ==
    /\ pc = "backoff"
    /\ UNCHANGED call
    /\ IF sleep_raises(backoff_interval(check_interval))
       THEN /\ pc' = "fatal"
            /\ exit_code' = 1
            /\ UNCHANGED <<now, iter_sleeps, consecutive_errors>>
       ELSE /\ now + backoff_interval(check_interval) <= MaxTime
            /\ now' = now + backoff_interval(check_interval)
            /\ iter_sleeps' = Append(iter_sleeps, backoff_interval(check_interval))
            /\ consecutive_errors' = errors_after_backoff
            /\ pc' = "sleep"
            /\ UNCHANGED exit_code
    /\ UNCHANGED <<config, identity, processed_events,
                   last_heartbeat_time, current_time, event, history, iter_poll,
                   iter_terms, iter_sends, iter_exc>>

\* main(), line 258: sleep before the next check.  The sleep is outside the
\* try block: its ValueError leaves main() and ends the process (lines
\* 266-268).  Otherwise the record of the iteration ends here; the local
\* `event` keeps its value until line 216 assigns it again.
Sleep ==
    /\ pc = "sleep"
    /\ UNCHANGED call
    /\ IF sleep_raises(check_interval)
       THEN /\ pc' = "fatal"
            /\ exit_code' = 1
            /\ UNCHANGED <<now, iter_poll, iter_sends, iter_sleeps>>
       ELSE /\ now + check_interval <= MaxTime
            /\ now' = now + check_interval
            /\ pc' = "poll"
            /\ iter_poll' = NoPoll
            /\ iter_sends' = <<>>
            /\ iter_sleeps' = <<>>
            /\ UNCHANGED exit_code
    /\ UNCHANGED <<config, identity, loop_state, current_time, event, iter_terms,
                   history, iter_exc>>

\* lines 264-265: KeyboardInterrupt, the external interrupt, stops the
\* process.  It can surface between any two statements and inside any
\* blocking call, so a step can be cut short after part of its assignments;
\* each case below is one place where the state at the stop differs from
\* the state before and after the whole step.  A sleep that is interrupted
\* has let part of its length pass.
Interrupt ==
    /\ pc \notin {"exit", "fatal", "stopped", "killed"}
    /\ UNCHANGED <<call, exit_code, config>>
    /\ pc' = "stopped"
    /\ \/ \* between two steps, or inside a call that follows no assignment
          UNCHANGED <<now, identity, loop_state, current_time, event, history,
                      iter_history>>
       \/ \* line 174: inside the metadata GET
          /\ pc = "resolve"
          /\ resolve_again(resource_group, vm_name, retry_count)
          /\ fetches' = fetches + 1
          /\ UNCHANGED <<now, resource_group, vm_name, retry_count, loop_state,
                         current_time, event, history, iter_history>>
       \/ \* line 178: inside time.sleep(2), the absent result counted
          /\ pc = "resolve"
          /\ resolve_again(resource_group, vm_name, retry_count)
          /\ fetches' = fetches + 1
          /\ retry_count' = retry_count + 1
          /\ resource_group' = None
          /\ vm_name' = None
          /\ \E elapsed \in 0..(RetryPause - 1) :
                /\ now + elapsed <= MaxTime
                /\ now' = now + elapsed
          /\ UNCHANGED <<loop_state, current_time, event, history, iter_history>>
       \/ \* line 187: vm_name has its fallback, resource_group not yet
          /\ pc = "resolve"
          /\ ~resolve_again(resource_group, vm_name, retry_count)
          /\ vm_name = None
          /\ vm_name' = Hostname
          /\ UNCHANGED <<now, resource_group, retry_count, fetches, loop_state,
                         current_time, event, history, iter_history>>
       \/ \* lines 198-208: the test send has returned, the loop's state is not set
          /\ pc = "test"
          /\ \E o \in WebhookOutcomes :
                /\ send_webhook(WEBHOOK_API_KEY, o) # "Raise"
                /\ iter_sends' = <<SendRecord("test", None,
                                               send_webhook(WEBHOOK_API_KEY, o))>>
          /\ UNCHANGED <<now, identity, loop_state, current_time, event, history,
                         iter_poll, iter_terms, iter_exc, iter_sleeps>>
       \/ \* line 216: inside the events GET, current_time set at line 212
          /\ pc = "poll"
          /\ current_time' = now
          /\ UNCHANGED <<now, identity, loop_state, event, history, iter_history>>
       \/ \* line 219: the poll has returned, the counter is not yet reset
          /\ pc = "poll"
          /\ current_time' = now
          /\ \E r \in PollResults :
                /\ ~r.raised
                /\ event' = r.event
                /\ iter_poll' = r.kind
                /\ iter_terms' = r.terms
          /\ iter_exc' = "none"
          /\ iter_sends' = <<>>
          /\ UNCHANGED <<now, identity, loop_state, history, iter_sleeps>>
       \/ \* lines 231-233: the send has returned True, the id is not yet added
          /\ pc = "notify"
          /\ is_new_event(event, processed_events) = "True"
          /\ \E o \in WebhookOutcomes :
                /\ send_webhook(WEBHOOK_API_KEY, o) = "True"
                /\ iter_sends' = Append(iter_sends,
                                        SendRecord("event", event.EventId, "True"))
          /\ sent' = sent \cup {event.EventId}
          /\ sent_ok' = sent_ok \cup {event.EventId}
          /\ sent_ok_types' = IF event.EventId = None
                              THEN sent_ok_types \cup {event.EventType}
                              ELSE sent_ok_types
          /\ iter_terms' = {}
          /\ UNCHANGED <<now, identity, loop_state, current_time, event,
                         iter_poll, iter_exc, iter_sleeps>>
       \/ \* line 243: the heartbeat send has returned, the time is not yet set
          /\ pc = "heartbeat"
          /\ heartbeat_due(current_time, last_heartbeat_time, heartbeat_interval)
          /\ \E o \in WebhookOutcomes :
                /\ send_webhook(WEBHOOK_API_KEY, o) # "Raise"
                /\ iter_sends' = Append(iter_sends,
                      SendRecord("heartbeat", None, send_webhook(WEBHOOK_API_KEY, o)))
          /\ UNCHANGED <<now, identity, loop_state, current_time, event, history,
                         iter_poll, iter_terms, iter_exc, iter_sleeps>>
       \/ \* line 253: inside the backoff sleep
          /\ pc = "backoff"
          /\ \E elapsed \in 1..(backoff_interval(check_interval) - 1) :
                /\ now + elapsed <= MaxTime
                /\ now' = now + elapsed
          /\ UNCHANGED <<identity, loop_state, current_time, event, history,
                         iter_history>>
       \/ \* line 255: the backoff is slept, the counter is not yet reset
          /\ pc = "backoff"
          /\ ~sleep_raises(backoff_interval(check_interval))
          /\ now + backoff_interval(check_interval) <= MaxTime
          /\ now' = now + backoff_interval(check_interval)
          /\ iter_sleeps' = Append(iter_sleeps, backoff_interval(check_interval))
          /\ UNCHANGED <<identity, loop_state, current_time, event, history,
                         iter_poll, iter_terms, iter_sends, iter_exc>>
       \/ \* line 258: inside the sleep that ends the iteration
          /\ pc = "sleep"
          /\ \E elapsed \in 1..(check_interval - 1) :
                /\ now + elapsed <= MaxTime
                /\ now' = now + elapsed
          /\ UNCHANGED <<identity, loop_state, current_time, event, history,
                         iter_history>>

\* lines 264-268: a KeyboardInterrupt inside the logging call of either
\* handler is caught by nothing; the interpreter prints the traceback and
\* ends the process by SIGINT (status 130) instead of exit code 0 or 1.
\* (Before Python 3.8 the interpreter ended with exit code 1 there; no
\* version is pinned, so both are outcomes of the program.)
InterruptHandler ==
    /\ pc \in {"stopped", "fatal"}
    /\ pc' = "killed"
    /\ exit_code' \in {1, 130}
    /\ UNCHANGED <<call, now, config, identity, loop_state, current_time, event,
                   history, iter_history>>

Next ==
    \/ Start
    \/ Resolve
    \/ Fallback
    \/ ConnectivityTest
    \/ Poll
    \/ Notify
    \/ Heartbeat
    \/ Except
    \/ Backoff
    \/ Sleep
    \/ Interrupt
    \/ InterruptHandler

Spec == Init /\ [][Next]_vars

\* send_webhook() called on its own: one call with the configured key and
\* any outcome of the POST, keeping what it returned and what it logged.
SendWebhookCall ==
    /\ \E o \in PostOutcomes :
         call' = [outcome |-> o,
                  result |-> send_webhook(WEBHOOK_API_KEY, o),
                  log |-> send_webhook_log(WEBHOOK_API_KEY, o)]
    /\ UNCHANGED <<pc, exit_code, now, config, identity, loop_state,
                   current_time, event, history, iter_history>>

SendSpec == Init /\ [][SendWebhookCall]_vars

TypeOK ==
    /\ pc \in {"start", "resolve", "test", "poll", "notify", "heartbeat",
               "except", "backoff", "sleep", "exit", "fatal", "stopped",
               "killed"}
    /\ now \in 0..MaxTime
    /\ processed_events \subseteq (Ids \cup {None})
    /\ consecutive_errors \in 0..(MAX_CONSECUTIVE_ERRORS + 1)

\* ------------------------------------------------------------- properties

HashableIds == Ids \cup {None}
Steady == {"poll", "notify", "heartbeat", "except", "backoff", "sleep"}

Range(seq) == {seq[i] : i \in DOMAIN seq}
LastSend(seq) == seq[Len(seq)]
EventSends(seq) == {i \in DOMAIN seq : seq[i].kind = "event"}
HeartbeatSends(seq) == {i \in DOMAIN seq : seq[i].kind = "heartbeat"}

\* this step makes a send_webhook call
SendStep == Len(iter_sends') = Len(iter_sends) + 1
\* the first termination event of the polled list, if any, has a string id
FirstHasId == event # NoEvent => event.EventId \in Ids
\* this step makes an event-triggered send for `id`
EventSendStep(id) ==
    /\ SendStep
    /\ LastSend(iter_sends').kind = "event"
    /\ LastSend(iter_sends').id = id
\* this step makes a heartbeat send
HeartbeatSendStep ==
    /\ SendStep
    /\ LastSend(iter_sends').kind = "heartbeat"

\* C1: once an event-triggered send for an eventId has returned Success, no
\* step makes another event-triggered send for that eventId (so at most one
\* send per eventId returns Success), however often the id is polled again.
C1_NoSendAfterSuccess ==
    [][\A id \in HashableIds : id \in sent_ok => ~EventSendStep(id)]_vars

\* C1 witness: an id whose send succeeded earlier is polled again and the
\* notify step has passed without a send.
C1_Witness ==
    /\ pc = "heartbeat"
    /\ event # NoEvent
    /\ event.EventId \in sent_ok
    /\ iter_sends = <<>>

\* C2 (as claimed): no eventId gets a second event-triggered send, successful
\* or failed.
C2_AtMostOneSend ==
    \A i \in EventSends(iter_sends) : iter_sends[i].prior = "first"

\* C2 (amended): an iteration makes at most one event-triggered send, and a
\* send for an eventId that is not the first for it follows only failed ones,
\* never a successful one (so at most one send per eventId returns Success):
\* the id is in processed_events only after a send that returned True, and
\* always after one unless an interrupt has ended the process before line 233.
C2_ResendOnlyAfterFailure ==
    /\ Cardinality(EventSends(iter_sends)) <= 1
    /\ \A i \in EventSends(iter_sends) :
         /\ iter_sends[i].prior # "after_success"
         /\ iter_sends[i].id \in sent
         /\ iter_sends[i].id \in sent_ok <=> iter_sends[i].result = "True"
         /\ iter_sends[i].id \in processed_events => iter_sends[i].result = "True"
         /\ (iter_sends[i].result = "True" /\ pc \notin {"stopped", "killed"})
                => iter_sends[i].id \in processed_events

\* C2 witness: a second send for an id whose earlier send failed.
C2_Witness ==
    /\ pc = "heartbeat"
    /\ \E i \in EventSends(iter_sends) :
         iter_sends[i].prior = "after_failure" /\ iter_sends[i].result = "False"

\* C3: a step changes processed_events only by adding the eventId of the
\* event whose send returned Success in that step, and such a send always adds
\* it unless an interrupt ends the process before line 233; every other step
\* (failed send, poll, heartbeat, except clause, sleep) leaves the set as it
\* is, and no id is removed.
C3_ProcessedFrame ==
    [][/\ processed_events' # processed_events =>
            /\ pc = "notify"
            /\ \E id \in HashableIds :
                 /\ EventSendStep(id)
                 /\ LastSend(iter_sends').result = "True"
                 /\ processed_events' = processed_events \cup {id}
       /\ \A id \in HashableIds :
            (/\ EventSendStep(id) /\ LastSend(iter_sends').result = "True"
             /\ pc' # "stopped")
                => processed_events' = processed_events \cup {id}
       /\ processed_events \subseteq processed_events'
      ]_vars

\* C3 witness: a successful send has added a second id to the set.
C3_Witness ==
    /\ pc = "heartbeat"
    /\ Cardinality(processed_events) = 2
    /\ \E i \in EventSends(iter_sends) :
         iter_sends[i].result = "True" /\ iter_sends[i].id \in processed_events

\* C4 (as claimed): an event all of whose sends failed stays out of the
\* processed set and gets a send in every poll that reports it.  (Stated for
\* lists whose first termination event carries an EventId string.)
C4_RetriedWheneverReported ==
    [][(pc = "notify" /\ pc' # "stopped" /\ FirstHasId) =>
         \A id \in Ids :
            (id \in sent \ sent_ok /\ id \in iter_terms)
                => (id \notin processed_events /\ EventSendStep(id))]_vars

\* C4 (amended): an event all of whose sends failed stays out of the processed
\* set and gets a send in every poll whose first termination-type event it is.
C4_RetriedWhenFirst ==
    [][/\ \A id \in sent \ sent_ok : id \notin processed_events
       /\ pc = "notify" /\ pc' # "stopped" =>
            \A id \in HashableIds :
               (id \in sent \ sent_ok /\ event # NoEvent /\ event.EventId = id)
                   => EventSendStep(id)]_vars

\* C4 witness: the event is sent again in a later poll, and fails again.
C4_Witness ==
    /\ pc = "sleep"
    /\ event # NoEvent
    /\ event.EventId \notin processed_events
    /\ \E i \in EventSends(iter_sends) :
         /\ iter_sends[i].id = event.EventId
         /\ iter_sends[i].prior = "after_failure"
         /\ iter_sends[i].result = "False"

\* C5: the notify step sends for the first event of the polled list that has
\* a termination type and an eventId not in the processed set, and makes no
\* event-triggered send only when the list has no such event.  (Stated for
\* lists whose first termination event carries an EventId string, and for
\* the events with such an id: the first one is the event to send for when
\* it is unprocessed, one of the later ones when it is processed.)
C5_FirstEligibleIsSent ==
    [][(pc = "notify" /\ pc' # "stopped" /\ FirstHasId) =>
         IF iter_terms \ processed_events = {}
         THEN ~SendStep
         ELSE IF event.EventId \notin processed_events
         THEN EventSendStep(event.EventId)
         ELSE \E id \in iter_terms \ processed_events : EventSendStep(id)]_vars

\* C5 failing case: an already processed termination event is listed ahead of
\* an unprocessed one and the notify step has made no send.
C5_Masked ==
    /\ pc = "heartbeat"
    /\ event # NoEvent
    /\ event.EventId \in processed_events
    /\ iter_sends = <<>>

\* C6: every iteration makes a heartbeat send when current_time -
\* last_heartbeat_time >= heartbeat_interval and none when it is smaller,
\* never more than one, whatever the poll, detection and notification steps
\* of that iteration did.  Checked on the step that ends the iteration's
\* body (the heartbeat step, or the step that raises into the except clause).
C6_HeartbeatWheneverDue ==
    [][(pc \in {"poll", "notify", "heartbeat"} /\ pc' \in {"except", "sleep"}) =>
         Cardinality(HeartbeatSends(iter_sends'))
            = IF heartbeat_due(current_time', last_heartbeat_time,
                               heartbeat_interval)
              THEN 1 ELSE 0]_vars

\* C6 failing case: the heartbeat is due, the poll, detection or notification
\* step has raised, and the iteration is in the except clause without a
\* heartbeat send.
C6_HeartbeatSkipped ==
    /\ pc = "except"
    /\ iter_exc \in {"poll", "detect", "notify"}
    /\ heartbeat_due(current_time, last_heartbeat_time, heartbeat_interval)
    /\ HeartbeatSends(iter_sends) = {}

\* C7: identity resolution calls get_azure_metadata at least once and at most
\* max_retries times, stops at the first result with both fields, leaves the
\* retry loop after the fifth call at the latest, and after five absent
\* results goes on with the host name and the default resource group.
C7_IdentityResolution ==
    /\ fetches <= max_retries
    /\ retry_count <= max_retries
    /\ (pc = "resolve" /\ fetches = max_retries) =>
          ~((resource_group = None \/ vm_name = None) /\ retry_count < max_retries)
    /\ (pc = "resolve" /\ resource_group # None /\ vm_name # None) =>
          fetches = retry_count + 1
    /\ pc \in Steady \cup {"test"} =>
          /\ fetches >= 1
          /\ IF retry_count = max_retries
             THEN /\ fetches = max_retries
                  /\ vm_name = Hostname
                  /\ resource_group = DEFAULT_RESOURCE_GROUP
             ELSE /\ fetches = retry_count + 1
                  /\ vm_name = "Vm1"
                  /\ resource_group = "MyRG"

\* C7 witness: five absent results, then the loop runs on the fallback identity.
C7_Witness ==
    /\ pc = "notify"
    /\ fetches = 5
    /\ retry_count = 5
    /\ vm_name = Hostname
    /\ resource_group = DEFAULT_RESOURCE_GROUP

\* C8: the backoff sleep min(300, 2 * check_interval) is slept exactly when
\* the except clause has raised the counter above MAX_CONSECUTIVE_ERRORS,
\* once, and leaves the counter at MAX_CONSECUTIVE_ERRORS div 2 = 5; the
\* iteration then ends with the normal sleep of check_interval and goes on
\* to the next poll; an iteration whose counter is at most 10 sleeps no
\* backoff.
C8_Backoff ==
    [][/\ (pc = "except" /\ pc' # "stopped") =>
            /\ now' = now
            /\ iter_sleeps' = <<>>
            /\ pc' = IF consecutive_errors + 1 > 10 THEN "backoff" ELSE "sleep"
       /\ (pc = "backoff" /\ pc' # "stopped") =>
            /\ consecutive_errors > 10
            /\ now' = now + (IF 2 * check_interval < 300 THEN 2 * check_interval ELSE 300)
            /\ iter_sleeps' = <<now' - now>>
            /\ consecutive_errors' = 5
            /\ pc' = "sleep"
       /\ (pc = "sleep" /\ iter_sleeps # <<>> /\ pc' # "stopped") =>
            /\ now' = now + check_interval
            /\ pc' = "poll"
       /\ (pc \in Steady /\ now' # now) => pc \in {"backoff", "sleep"}
       /\ (iter_sleeps' # iter_sleeps /\ iter_sleeps' # <<>>) => pc = "backoff"
      ]_vars

\* C8 witness: the backoff has been slept and the iteration is about to end
\* with the counter at 5.
C8_Witness ==
    /\ pc = "sleep"
    /\ iter_sleeps = <<2>>
    /\ consecutive_errors = 5
    /\ check_interval = 1

\* C9: a failed scheduled-events request (network error, timeout, HTTP error,
\* malformed response) yields no event for this cycle (check_scheduled_events
\* returns None, or it raises and `event` keeps the value of an earlier
\* cycle, which the skipped notify step does not look at: no event-triggered
\* send either way), leaves the consecutive-error counter incremented (so at
\* least 1) and keeps the loop running.
C9_PollFailureCounted ==
    (pc \in {"notify", "heartbeat", "backoff", "sleep"}
        /\ iter_poll \in {"RequestException", "Malformed"}) =>
       /\ iter_poll = "RequestException" => event = NoEvent
       /\ EventSends(iter_sends) = {}
       /\ consecutive_errors >= 1

\* C10: an exception raised by the poll, detect, notify or heartbeat step is
\* caught: the except clause adds one to consecutive_errors and the loop goes
\* on to the sleep (through the backoff when due) and the next iteration; the
\* steady state is left only by the external interrupt, never with an error
\* exit.
C10_ExceptionsCaught ==
    [][/\ (iter_exc' # "none" /\ iter_exc = "none") =>
            /\ pc \in {"poll", "notify", "heartbeat"}
            /\ pc' = "except"
       /\ pc' = "except" => iter_exc' # "none"
       /\ (pc = "except" /\ pc' # "stopped") =>
            /\ consecutive_errors' = consecutive_errors + 1
            /\ pc' \in {"backoff", "sleep"}
       /\ (pc = "backoff" /\ pc' # "stopped") => pc' = "sleep"
       /\ (pc = "sleep" /\ pc' # "stopped") => pc' = "poll"
       /\ pc \in Steady => (pc' \in Steady \cup {"stopped"} /\ exit_code' = 0)
      ]_vars

\* C10 failing case: the first iteration has polled and the sleep that ends
\* it has raised; the process is over with an error exit.
C10_Witness ==
    /\ pc = "fatal"
    /\ exit_code = 1
    /\ iter_poll # NoPoll
    /\ sleep_raises(check_interval)

\* C11: without an API key (neither the flag nor the environment gives one)
\* the process ends with a non-zero exit code straight from start-up: no
\* identity fetch, no poll and no webhook send has been made, and none of the
\* steps from identity resolution on is ever reached.
C11_NoKeyExitsFirst ==
    /\ (WEBHOOK_API_KEY = None /\ pc # "start") =>
          /\ pc \in {"exit", "stopped", "killed"}
          /\ fetches = 0 /\ retry_count = 0 /\ now = 0
          /\ iter_poll = NoPoll /\ iter_sends = <<>>
          /\ sent = {} /\ processed_events = {}
    /\ pc = "exit" => (WEBHOOK_API_KEY = None /\ exit_code = 1)
    /\ pc \in {"resolve", "test"} \cup Steady => WEBHOOK_API_KEY # None

C11_Witness == pc = "exit" /\ exit_code = 1 /\ WEBHOOK_API_KEY = None

\* C12: send_webhook returns Success exactly when the POST completes with a
\* 2xx status: 401 is an authentication failure, 400 a bad request, every
\* other status outside 2xx (1xx and 3xx included) and every
\* RequestException is a failure, and a body that is not JSON does not
\* change a Success.
C12_SuccessIffPost2xx ==
    call # NoCall =>
        LET o == call.outcome
            completed2xx == /\ WEBHOOK_API_KEY # None
                            /\ o.exc = "none"
                            /\ o.status \in 200..299
        IN  /\ call.result = "True" <=> completed2xx
            /\ (WEBHOOK_API_KEY # None /\ o.exc = "none" /\ o.status = 401)
                  => call.log = "auth_failed"
            /\ (WEBHOOK_API_KEY # None /\ o.exc = "none" /\ o.status = 400)
                  => call.log = "bad_request"
            /\ (WEBHOOK_API_KEY # None /\ o.exc = "RequestException")
                  => call.result = "False"

\* a POST that completed with 304 and was reported as sent
C12_Witness ==
    /\ call.outcome.exc = "none" /\ call.outcome.status = 304
    /\ call.result = "True" /\ call.log = "sent"

\* C13: every step that attempts a heartbeat send sets last_heartbeat_time to
\* the iteration's current_time, whatever became of the send, so that the
\* next attempt comes a full heartbeat_interval later at the earliest: a
\* heartbeat that failed is not tried again before that.
C13_HeartbeatAdvancesClock ==
    [][(HeartbeatSendStep /\ pc' # "stopped") =>
         /\ current_time - last_heartbeat_time >= heartbeat_interval
         /\ last_heartbeat_time' = current_time]_vars

\* a heartbeat send raised, the clock of the heartbeat stayed where it was,
\* and the heartbeat is due again at the very next poll
C13_Witness ==
    /\ pc = "except" /\ iter_exc = "heartbeat"
    /\ HeartbeatSends(iter_sends) # {}
    /\ LastSend(iter_sends).result = "Raise"
    /\ current_time - last_heartbeat_time >= heartbeat_interval

\* the identity pairs resolution can end with: a pair the metadata service
\* reported, each name as reported, or a fallback value
ResolvedGroups ==
    ({r.resourceGroupName : r \in {m \in MetadataResponses : m.kind = "ok"}}
        \ {None}) \cup {DEFAULT_RESOURCE_GROUP}
ResolvedNames ==
    ({r.name : r \in {m \in MetadataResponses : m.kind = "ok"}}
        \ {None}) \cup {Hostname}

\* C14: once identity resolution has ended it is never entered again, no
\* later step changes resource_group or vm_name, and every send (test, event
\* or heartbeat) carries that same pair, spelled as it was resolved.
C14_IdentityFixed ==
    [][/\ pc \notin {"start", "resolve"} =>
            /\ pc' \notin {"start", "resolve"}
            /\ resource_group' = resource_group
            /\ vm_name' = vm_name
       /\ SendStep =>
            /\ LastSend(iter_sends').resourceGroup = resource_group
            /\ LastSend(iter_sends').vmName = vm_name
            /\ resource_group \in ResolvedGroups
            /\ vm_name \in ResolvedNames]_vars

C14_Witness ==
    /\ pc = "sleep" /\ current_time > 0
    /\ Len(iter_sends) = 2
    /\ iter_sends[1].kind = "event" /\ iter_sends[2].kind = "heartbeat"
    /\ \A i \in 1..2 : /\ iter_sends[i].resourceGroup = "MyRG"
                        /\ iter_sends[i].vmName = "Vm1"

\* C15: between identity resolution and the first poll exactly one
\* diagnostic send is made, and whatever becomes of it the loop is entered
\* next, with an empty processed set and consecutive_errors = 0.
C15_TestThenLoop ==
    [][/\ (pc = "test" /\ iter_sends' # iter_sends /\ pc' # "stopped") =>
            /\ Len(iter_sends') = 1
            /\ iter_sends'[1].kind = "test"
            /\ pc' = "poll"
            /\ processed_events' = {}
            /\ consecutive_errors' = 0
       /\ (pc \notin Steady /\ pc' \in Steady) => pc = "test"]_vars

\* the diagnostic send raised and the process ended before any poll
C15_Witness ==
    /\ pc = "fatal" /\ exit_code = 1
    /\ Len(iter_sends) = 1
    /\ iter_sends[1].kind = "test" /\ iter_sends[1].result = "Raise"
    /\ iter_poll = NoPoll

\* C16: a termination event with an unprocessed EventId that every poll
\* reports is eventually processed when every send returns True, whatever
\* else the list holds.  Taken one iteration at a time: the loop keeps no
\* other state than processed_events, so an iteration that polls such an
\* event, makes only successful sends and leaves processed_events as it was
\* repeats forever under the same polls; the event is eventually processed
\* exactly when every such iteration marks a reported, unprocessed id.
\* (Stated for lists whose first termination event carries an EventId
\* string.)
C16_ReportedEventGetsProcessed ==
    [][(/\ pc = "notify" /\ pc' # "stopped"
        /\ FirstHasId
        /\ iter_terms \ processed_events # {}
        /\ SendStep => LastSend(iter_sends').result = "True")
       => \E id \in iter_terms \ processed_events :
             id \in processed_events']_vars

\* C16 failing case: the poll lists a processed termination event ahead of an
\* unprocessed one, and nothing the notify step can do will send for it
C16_Witness ==
    /\ pc = "notify"
    /\ event # NoEvent
    /\ event.EventId \in Ids \cap processed_events
    /\ iter_terms \ processed_events # {}

\* C17 (as claimed): consecutive_errors stays in 0..11; an iteration whose
\* poll returns resets it to 0; it exceeds 1 only when the poll raised in this
\* iteration and in the iteration before; and an iteration that raised in
\* the detect, notify or heartbeat step ends with it at 1, without backoff.
C17_OnlyFetchAccumulates ==
    [][/\ consecutive_errors' \in 0..(MAX_CONSECUTIVE_ERRORS + 1)
       /\ (pc = "poll" /\ pc' = "notify") => consecutive_errors' = 0
       /\ (pc = "poll" /\ pc' = "except" /\ consecutive_errors >= 1)
            => iter_exc = "poll"
       /\ (pc = "except" /\ pc' # "stopped" /\ consecutive_errors' > 1)
            => iter_exc = "poll"
       /\ (pc = "except" /\ pc' # "stopped" /\ iter_exc # "poll")
            => (consecutive_errors' = 1 /\ pc' = "sleep")]_vars

\* C17 (amended): as above, but the counter exceeds 1 when the poll raised
\* in this iteration and the iteration before ended in an exception of any
\* step; only from 3 on did the poll raise in that iteration as well.
C17_FetchRaisedLast ==
    [][/\ consecutive_errors' \in 0..(MAX_CONSECUTIVE_ERRORS + 1)
       /\ (pc = "poll" /\ pc' = "notify") => consecutive_errors' = 0
       /\ (pc = "poll" /\ pc' = "except" /\ consecutive_errors >= 1)
            => iter_exc # "none"
       /\ (pc = "poll" /\ pc' = "except" /\ consecutive_errors >= 2)
            => iter_exc = "poll"
       /\ (pc = "except" /\ pc' # "stopped" /\ consecutive_errors' > 1)
            => iter_exc = "poll"
       /\ (pc = "except" /\ pc' # "stopped" /\ iter_exc # "poll")
            => (consecutive_errors' = 1 /\ pc' = "sleep")]_vars

\* the counter stands at 2 after a poll that raised
C17_Witness ==
    /\ pc = "sleep" /\ iter_exc = "poll"
    /\ consecutive_errors = 2
    /\ iter_sleeps = <<>>

\* C18: termination events without an EventId share one deduplication key:
\* once the send for one of them has returned True, the notify step makes no
\* event-triggered send for any id-less termination event polled later, one
\* of another type included, and at most one id-less event is ever notified
\* with success.
C18_IdlessSharedKey ==
    [][/\ (/\ pc = "notify"
           /\ event # NoEvent /\ event.EventId = None
           /\ sent_ok_types # {})
          => (~SendStep /\ processed_events' = processed_events)
       /\ Cardinality(sent_ok_types') <= 1]_vars

\* a second, different id-less termination event was polled after the
\* first one had been notified, and the notify step let it pass unsent
C18_Witness ==
    /\ pc = "heartbeat"
    /\ event # NoEvent /\ event.EventId = None
    /\ sent_ok_types # {}
    /\ event.EventType \notin sent_ok_types
    /\ iter_sends = <<>>

====
